---- MODULE Spec2Model ----
(***************************************************************************)
(* Room / presence state machine and event fan-out of the SoulSync         *)
(* Socket.IO hub.  The repository holds several generations of the same    *)
(* server; the model carries the generation as the variable `variant`:     *)
(*   "A"  src/server.js 1-186      (activeRooms + userRooms, "user-<id>")   *)
(*   "B"  src/server.js 188-405    (callStates, conversationKey router)     *)
(*   "C"  src/unnamed/part_003     (router fans out to room and user:<id>)  *)
(*   "D"  src/unnamed/part_000     (userSockets Map, message/call relays)   *)
(* Identifiers are JavaScript primitives; strings are sequences of         *)
(* one-character strings so that `<`, template literals and Number() are   *)
(* computed the way the engine computes them.                              *)
(***************************************************************************)
EXTENDS Integers, Sequences, FiniteSets, TLC

\* ------------------------------------------------------------------------
\* JavaScript values used as identifiers
\* ------------------------------------------------------------------------
Num(n) == [k |-> "num", n |-> n, s |-> <<>>]
Str(s) == [k |-> "str", n |-> 0, s |-> s]
Undef == [k |-> "undef", n |-> 0, s |-> <<>>]

NaN == [nan |-> TRUE, v |-> 0]
Finite(n) == [nan |-> FALSE, v |-> n]

Digits == <<"0", "1", "2", "3", "4", "5", "6", "7", "8", "9">>

DigitChars == {Digits[i] : i \in 1..10}

DigitVal(c) == (CHOOSE i \in 1..10 : Digits[i] = c) - 1

\* UTF-16 code unit of the characters the model uses
CharCode(c) ==
    CASE c = "-" -> 45
      [] c \in DigitChars -> 48 + DigitVal(c)
      [] c = ":" -> 58
      [] c = "_" -> 95
      [] c = "a" -> 97
      [] c = "b" -> 98
      [] c = "d" -> 100
      [] c = "e" -> 101
      [] c = "f" -> 102
      [] c = "i" -> 105
      [] c = "k" -> 107
      [] c = "n" -> 110
      [] c = "r" -> 114
      [] c = "s" -> 115
      [] c = "u" -> 117

\* truthiness of a primitive: 0, "" and undefined are falsy
Truthy(x) ==
    CASE x.k = "num" -> x.n # 0
      [] x.k = "str" -> x.s # <<>>
      [] OTHER -> FALSE

RECURSIVE NatToStr(_)
NatToStr(n) == IF n < 10 THEN <<Digits[n + 1]>>
               ELSE NatToStr(n \div 10) \o <<Digits[(n % 10) + 1]>>

\* ToString of a primitive, as a template literal `${x}` applies it
ToStr(x) ==
    CASE x.k = "num" -> IF x.n < 0 THEN <<"-">> \o NatToStr(0 - x.n) ELSE NatToStr(x.n)
      [] x.k = "str" -> x.s
      [] OTHER -> <<"u", "n", "d", "e", "f", "i", "n", "e", "d">>

RECURSIVE DigitsToNat(_)
DigitsToNat(s) == IF s = <<>> THEN 0
                  ELSE 10 * DigitsToNat(SubSeq(s, 1, Len(s) - 1)) + DigitVal(s[Len(s)])

AllDigits(s) == s # <<>> /\ \A i \in 1..Len(s) : s[i] \in DigitChars

\* Number(s) for a string over the model's alphabet: "" is 0, an optionally
\* signed run of decimal digits is its value, anything else is NaN
StrToNumber(s) ==
    IF s = <<>> THEN Finite(0)
    ELSE IF AllDigits(s) THEN Finite(DigitsToNat(s))
    ELSE IF s[1] = "-" /\ AllDigits(Tail(s)) THEN Finite(0 - DigitsToNat(Tail(s)))
    ELSE NaN

ToNumber(x) ==
    CASE x.k = "num" -> Finite(x.n)
      [] x.k = "str" -> StrToNumber(x.s)
      [] OTHER -> NaN

RECURSIVE LexLt(_, _)
LexLt(s, t) ==
    IF t = <<>> THEN FALSE
    ELSE IF s = <<>> THEN TRUE
    ELSE IF CharCode(s[1]) # CharCode(t[1]) THEN CharCode(s[1]) < CharCode(t[1])
    ELSE LexLt(Tail(s), Tail(t))

\* the relational operator a < b on primitives: two strings compare by code
\* units, anything else compares numerically and NaN makes it false
JsLt(a, b) ==
    IF a.k = "str" /\ b.k = "str" THEN LexLt(a.s, b.s)
    ELSE LET x == ToNumber(a)
             y == ToNumber(b)
         IN  ~x.nan /\ ~y.nan /\ x.v < y.v

\* a < b ? `${a}-${b}` : `${b}-${a}`
RoomKey(a, b) ==
    IF JsLt(a, b) THEN ToStr(a) \o <<"-">> \o ToStr(b)
    ELSE ToStr(b) \o <<"-">> \o ToStr(a)


\* ------------------------------------------------------------------------
\* Bounds and input domains
\* ------------------------------------------------------------------------
MaxJoins == 3
MaxRegs == 2
MaxKeyJoins == 2

Variants == {"A", "B", "C", "D"}
Tracking == {"A", "B", "C"}

Conns == <<"c1", "c2", "c3">>
ConnSet == {Conns[i] : i \in 1..Len(Conns)}

StrAb == Str(<<"a", "b">>)

\* the {senderId, receiverId} pairs of joinRoom in the lifecycle specification:
\* one conversation from both ends, a second conversation, a missing sender
JoinPairs == {<<Num(5), Num(9)>>, <<Num(9), Num(5)>>, <<Num(5), Num(5)>>,
              <<Undef, Num(9)>>}

\* identifiers of the room-key specification: a missing field, numbers, a
\* numeric string and a non-numeric string
KeyIds == {Undef, Num(5), Num(9), Str(<<"9">>), StrAb}

\* identifiers a client registers under
UserIds == {Undef, Num(9), StrAb}

\* socket.data.currentRoom = null
NoRoom == <<>>

\* the room name of a broadcast to every connected client (io.emit)
Everyone == <<"*">>

\* payload of an inbound event; a field the client left out is undefined
EmptyData ==
    [senderId |-> Undef, receiverId |-> Undef, userId |-> Undef,
     sender_id |-> Undef, caller_id |-> Undef, receiver_id |-> Undef,
     updated_by |-> Undef, other_user_id |-> Undef,
     conversationKey |-> Undef, id |-> Undef, call_id |-> Undef,
     roomId |-> Undef]

JoinData(a, b) == [EmptyData EXCEPT !.senderId = a, !.receiverId = b]

UserData(u) == [EmptyData EXCEPT !.userId = u]

\* ------------------------------------------------------------------------
\* State
\* ------------------------------------------------------------------------
VARIABLES
    variant,      \* which generation of the server is running
    status,       \* connection -> "new" | "live" | "closed"
    sio,          \* Socket.IO adapter: connection -> set of room names joined
    currentRoom,  \* socket.data.currentRoom
    activeRooms,  \* roomId -> set of socket ids
    userSockets,  \* property key of the user id -> set of socket ids
    userMap,      \* variant D: Map user id -> socket id
    callStates,   \* variant B: call id -> call record
    out,          \* emissions of the handler that ran last, in order
    last,         \* the inbound event handled last
    crashed,      \* a handler threw: the exception is uncaught
    response,     \* HTTP status of the bridge request handled last, 0 if none
    nJoins,       \* joinRoom events handled so far
    nRegs,        \* joinUserRoom / register events handled so far
    inbox,        \* connection -> what it was sent, in the order of arrival
    nSent,        \* events whose deliveries inbox records
    pc,           \* connection -> the statement its running handler has reached
    remaining,    \* connection -> the member count its handler has read
    succeeded     \* <<user id, connection, connection>>: the registration of the
                  \* user on the second has replaced the one on the first

vars == <<variant, status, sio, currentRoom, activeRooms, userSockets, userMap,
          callStates, out, last, crashed, response, nJoins, nRegs, inbox, nSent,
          pc, remaining, succeeded>>

\* the record of deliveries, which only the ordering specification keeps, the
\* position inside a handler, which only the step-level specification keeps,
\* and the record of replaced registrations, which only the handover
\* specification keeps
observed == <<inbox, nSent, pc, remaining, succeeded>>

Emission(ev, room, to) == [ev |-> ev, room |-> room, to |-> to]

Handled(op, c, ev, data) == [op |-> op, conn |-> c, ev |-> ev, data |-> data]

\* io.to(room): the live sockets the adapter holds in the room
InRoom(adapter, room) == {c \in ConnSet : room \in adapter[c]}

\* {} : an object (or Map) without entries
EmptyObject == [k \in {} |-> {}]

\* obj[key] = value, creating the property when absent
PutKey(obj, key, value) ==
    [k \in (DOMAIN obj) \cup {key} |-> IF k = key THEN value ELSE obj[k]]

\* delete obj[key]
DelKey(obj, key) == [k \in (DOMAIN obj) \ {key} |-> obj[k]]

\* `user-${id}` in variant A, `user:${id}` in variants B and C
UserChannel(v, id) ==
    IF v = "A" THEN <<"u", "s", "e", "r", "-">> \o ToStr(id)
    ELSE <<"u", "s", "e", "r", ":">> \o ToStr(id)

Init ==
    /\ variant \in Variants
    /\ status = [c \in ConnSet |-> "new"]
    /\ sio = [c \in ConnSet |-> {}]
    /\ currentRoom = [c \in ConnSet |-> NoRoom]
    /\ activeRooms = EmptyObject
    /\ userSockets = EmptyObject
    /\ userMap = EmptyObject
    /\ callStates = EmptyObject
    /\ out = <<>>
    /\ last = Handled("init", "none", "none", EmptyData)
    /\ crashed = FALSE
    /\ response = 0
    /\ nJoins = 0
    /\ nRegs = 0
    /\ inbox = [c \in ConnSet |-> <<>>]
    /\ nSent = 0
    /\ pc = [c \in ConnSet |-> "idle"]
    /\ remaining = [c \in ConnSet |-> 0]
    /\ succeeded = {}

\* io.on("connection"): socket ids are unique and never reused, so the
\* connections appear in the order of their names
Connect(c) ==
    /\ ~crashed
    /\ status[c] = "new"
    /\ \A i, j \in 1..Len(Conns) : (i < j /\ Conns[j] = c) => status[Conns[i]] # "new"
    /\ status' = [status EXCEPT ![c] = "live"]
    /\ currentRoom' = [currentRoom EXCEPT ![c] = NoRoom]
    /\ out' = <<>>
    /\ last' = Handled("connect", c, "connection", EmptyData)
    /\ response' = 0
    /\ UNCHANGED <<variant, sio, activeRooms, userSockets, userMap, callStates,
                   crashed, nJoins, nRegs>>


\* ------------------------------------------------------------------------
\* Identity registry
\* ------------------------------------------------------------------------

\* userSockets[userId].add(socket.id), the set being created when absent
Registered(reg, userId, c) ==
    LET key == ToStr(userId)
    IN  PutKey(reg, key, (IF key \in DOMAIN reg THEN reg[key] ELSE {}) \cup {c})

\* socket.on("joinUserRoom") of variants A, B and C
JoinUserRoom(c, userId) ==
    /\ ~crashed
    /\ variant \in Tracking
    /\ status[c] = "live"
    /\ nRegs < MaxRegs
    /\ nRegs' = nRegs + 1
    /\ last' = Handled("joinUserRoom", c, "joinUserRoom", UserData(userId))
    /\ response' = 0
    /\ out' = <<>>
    /\ IF ~Truthy(userId)
       THEN UNCHANGED <<sio, userSockets>>
       ELSE /\ sio' = [sio EXCEPT ![c] = @ \cup {UserChannel(variant, userId)}]
            /\ userSockets' = Registered(userSockets, userId, c)
    /\ UNCHANGED <<variant, status, currentRoom, activeRooms, userMap, callStates,
                   crashed, nJoins>>

\* socket.on("register") of variant D: userSockets.set(userId, socket.id)
Register(c, userId) ==
    /\ ~crashed
    /\ variant = "D"
    /\ status[c] = "live"
    /\ nRegs < MaxRegs
    /\ nRegs' = nRegs + 1
    /\ last' = Handled("register", c, "register", UserData(userId))
    /\ response' = 0
    /\ out' = <<>>
    /\ userMap' = PutKey(userMap, userId, c)
    /\ UNCHANGED <<variant, status, sio, currentRoom, activeRooms, userSockets,
                   callStates, crashed, nJoins>>

\* ------------------------------------------------------------------------
\* Room directory
\* ------------------------------------------------------------------------

\* the member count at which room:ready is emitted
ReadyThreshold == 2

\* Joined with a fresh member set on every join
Joined_Replaces(rooms, roomId, c) == PutKey(rooms, roomId, {c})

\* if (!activeRooms[roomId]) activeRooms[roomId] = new Set(); ...add(socket.id)
Joined(rooms, roomId, c) ==
    PutKey(rooms, roomId, (IF roomId \in DOMAIN rooms THEN rooms[roomId] ELSE {}) \cup {c})

\* if (activeRooms[roomId].size >= 2)
ReadyDue(members) == Cardinality(members) >= ReadyThreshold

\* the emissions of joinRoom: room:joined to the others in the adapter room,
\* then room:ready to the whole adapter room when the directory says so
JoinEmits(adapter, rooms, roomId, c) ==
    <<Emission("room:joined", roomId, InRoom(adapter, roomId) \ {c})>>
    \o (IF ReadyDue(rooms[roomId])
        THEN <<Emission("room:ready", roomId, InRoom(adapter, roomId))>>
        ELSE <<>>)

\* socket.on("joinRoom")
JoinRoom(c, senderId, receiverId) ==
    /\ ~crashed
    /\ status[c] = "live"
    /\ last' = Handled("joinRoom", c, "joinRoom", JoinData(senderId, receiverId))
    /\ response' = 0
    /\ nJoins' = nJoins + 1
    /\ IF variant \in Tracking
       THEN IF ~Truthy(senderId) \/ ~Truthy(receiverId)
            THEN /\ out' = <<>>
                 /\ UNCHANGED <<sio, currentRoom, activeRooms>>
            ELSE LET roomId == RoomKey(senderId, receiverId)
                 IN  /\ sio' = [sio EXCEPT ![c] = @ \cup {roomId}]
                     /\ currentRoom' = [currentRoom EXCEPT ![c] = roomId]
                     /\ activeRooms' = Joined(activeRooms, roomId, c)
                     /\ out' = JoinEmits(sio', activeRooms', roomId, c)
       ELSE /\ sio' = [sio EXCEPT ![c] = @ \cup {RoomKey(senderId, receiverId)}]
            /\ out' = <<>>
            /\ UNCHANGED <<currentRoom, activeRooms>>
    /\ UNCHANGED <<variant, status, userSockets, userMap, callStates, crashed, nRegs>>

\* ------------------------------------------------------------------------
\* Disconnect
\* ------------------------------------------------------------------------

\* Left without the delete of the emptied room
Left_KeepsEmpty(rooms, roomId, c) ==
    IF roomId # NoRoom /\ roomId \in DOMAIN rooms
    THEN PutKey(rooms, roomId, rooms[roomId] \ {c})
    ELSE rooms

\* activeRooms[roomId].delete(socket.id); delete activeRooms[roomId] when the
\* set is then empty.  Only the recorded current room is looked at.
Left(rooms, roomId, c) ==
    IF roomId # NoRoom /\ roomId \in DOMAIN rooms
    THEN LET rest == rooms[roomId] \ {c}
         IN  IF Cardinality(rest) = 0 THEN DelKey(rooms, roomId)
             ELSE PutKey(rooms, roomId, rest)
    ELSE rooms

\* else socket.to(roomId).emit("room:left", ...)
LeaveEmits(adapter, rooms, roomId, c) ==
    IF roomId # NoRoom /\ roomId \in DOMAIN rooms /\ rooms[roomId] \ {c} # {}
    THEN <<Emission("room:left", roomId, InRoom(adapter, roomId) \ {c})>>
    ELSE <<>>

\* a canonical array index: such property keys are enumerated first
IsIndexKey(k) == AllDigits(k) /\ (Len(k) = 1 \/ k[1] # "0")

RECURSIVE Ascending(_)
Ascending(S) ==
    IF S = {} THEN <<>>
    ELSE LET m == CHOOSE x \in S : \A y \in S : DigitsToNat(x) <= DigitsToNat(y)
         IN  <<m>> \o Ascending(S \ {m})

RECURSIVE Listed(_)
Listed(S) == IF S = {} THEN <<>>
             ELSE LET m == CHOOSE x \in S : TRUE IN <<m>> \o Listed(S \ {m})

\* Object.keys(obj): index keys in ascending order, then the other keys in
\* insertion order (UserIds holds one non-index key, so that order is fixed)
ObjectKeys(obj) ==
    Ascending({k \in DOMAIN obj : IsIndexKey(k)})
    \o Listed({k \in DOMAIN obj : ~IsIndexKey(k)})

\* the property key of Number(uid)
NumberKey(uid) ==
    LET n == StrToNumber(uid)
    IN  IF n.nan THEN <<"N", "a", "N">> ELSE ToStr(Num(n.v))

\* the key the cleanup loop reads: userRooms[Number(uid)] in variant A,
\* userSockets[uid] in variants B and C
CleanupKey(v, uid) == IF v = "A" THEN NumberKey(uid) ELSE uid

\* Object.keys(reg).forEach(uid => { reg[k].delete(id); if (reg[k].size === 0)
\* delete reg[k] }); reading .delete of a missing entry throws a TypeError
RECURSIVE Unregistered(_, _, _, _)
Unregistered(v, reg, keys, c) ==
    IF keys = <<>> THEN [reg |-> reg, thrown |-> FALSE]
    ELSE LET k == CleanupKey(v, Head(keys))
         IN  IF k \notin DOMAIN reg THEN [reg |-> reg, thrown |-> TRUE]
             ELSE LET rest == reg[k] \ {c}
                  IN  Unregistered(v,
                          IF Cardinality(rest) = 0 THEN DelKey(reg, k)
                          ELSE PutKey(reg, k, rest),
                          Tail(keys), c)

\* for (const [id, sId] of userSockets.entries()) if (sId === socket.id) delete
MapUnregistered(map, c) ==
    [u \in {x \in DOMAIN map : map[x] # c} |-> map[u]]

\* socket.on("disconnect"); Socket.IO has taken the socket out of every adapter
\* room before the handler runs
Disconnect(c) ==
    /\ ~crashed
    /\ status[c] = "live"
    /\ status' = [status EXCEPT ![c] = "closed"]
    /\ sio' = [sio EXCEPT ![c] = {}]
    /\ last' = Handled("disconnect", c, "disconnect", EmptyData)
    /\ response' = 0
    /\ IF variant \in Tracking
       THEN LET un == Unregistered(variant, userSockets, ObjectKeys(userSockets), c)
            IN  /\ activeRooms' = Left(activeRooms, currentRoom[c], c)
                /\ out' = LeaveEmits(sio', activeRooms, currentRoom[c], c)
                /\ userSockets' = un.reg
                /\ crashed' = un.thrown
                /\ UNCHANGED userMap
       ELSE /\ userMap' = MapUnregistered(userMap, c)
            /\ out' = <<>>
            /\ UNCHANGED <<activeRooms, userSockets, crashed>>
    /\ UNCHANGED <<variant, currentRoom, callStates, nJoins, nRegs>>

\* ------------------------------------------------------------------------
\* Event router
\* ------------------------------------------------------------------------

\* a ?? b
Nullish(a, b) == IF a.k = "undef" THEN b ELSE a

\* a || b
Either(a, b) == IF Truthy(a) THEN a ELSE b

\* the sockets io.emit reaches: every connected client
Connected == {c \in ConnSet : status[c] = "live"}

RECURSIVE ReplaceFirst(_, _, _)
\* s.replace(from, to) for one-character from and to
ReplaceFirst(str, from, to) ==
    IF str = <<>> THEN <<>>
    ELSE IF Head(str) = from THEN <<to>> \o Tail(str)
    ELSE <<Head(str)>> \o ReplaceFirst(Tail(str), from, to)

\* emitToRoom of variant A: the room of the resolved pair, else everyone
EmitToRoomA(adapter, ev, data) ==
    LET sid == Nullish(data.sender_id, data.caller_id)
        rid == Nullish(data.receiver_id, data.receiverId)
    IN  IF Truthy(sid) /\ Truthy(rid)
        THEN <<Emission(ev, RoomKey(sid, rid), InRoom(adapter, RoomKey(sid, rid)))>>
        ELSE <<Emission(ev, Everyone, Connected)>>

\* emitToRoom of variant B: the conversationKey room or the room of the
\* resolved pair; without a room nothing is emitted
EmitToRoomB(adapter, ev, data) ==
    LET sid == Nullish(Nullish(data.sender_id, data.caller_id), data.updated_by)
        rid == Nullish(Nullish(data.receiver_id, data.receiverId), data.other_user_id)
        roomId == IF Truthy(data.conversationKey)
                  THEN ReplaceFirst(ToStr(data.conversationKey), "_", "-")
                  ELSE IF Truthy(sid) /\ Truthy(rid) THEN RoomKey(sid, rid)
                  ELSE NoRoom
    IN  IF roomId = NoRoom THEN <<>>
        ELSE <<Emission(ev, roomId, InRoom(adapter, roomId))>>

\* emitToRoom of variant C: the room of the resolved pair and then the
\* receiver's user channel, else everyone
EmitToRoomC(adapter, ev, data) ==
    LET sid == Nullish(data.sender_id, data.caller_id)
        rid == Nullish(data.receiver_id, data.receiverId)
    IN  IF Truthy(sid) /\ Truthy(rid)
        THEN <<Emission(ev, RoomKey(sid, rid), InRoom(adapter, RoomKey(sid, rid))),
               Emission(ev, UserChannel("C", rid), InRoom(adapter, UserChannel("C", rid)))>>
        ELSE <<Emission(ev, Everyone, Connected)>>

\* io.to(roomId).emit of variant D's call relays: no guard on the identifiers
EmitToRoomD(adapter, ev, id1, id2) ==
    <<Emission(ev, RoomKey(id1, id2), InRoom(adapter, RoomKey(id1, id2)))>>

\* [listenEvent, emitEvent, status]
CallEvents ==
    <<[listen |-> "call:start", emit |-> "call:ringing", status |-> "ringing"],
      [listen |-> "call:accept", emit |-> "call:accepted", status |-> "accepted"],
      [listen |-> "call:reject", emit |-> "call:rejected", status |-> "rejected"],
      [listen |-> "call:cancel", emit |-> "call:cancelled", status |-> "cancelled"],
      [listen |-> "call:end", emit |-> "call:ended", status |-> "ended"]>>

\* if (data.<field>) io.to(`user-${data.<field>}`).emit(...) of variant A
UserNotice(adapter, ev, id) ==
    IF Truthy(id)
    THEN <<Emission(ev, UserChannel("A", id), InRoom(adapter, UserChannel("A", id)))>>
    ELSE <<>>

\* the emissions of variant A's call handlers: call:start notifies the
\* receiver's channel, call:accept and call:reject the receiver's and the
\* sender's, call:cancel and call:end none; all then go through emitToRoom
CallEmitsA(adapter, e, data) ==
    (IF e.listen \in {"call:start", "call:accept", "call:reject"}
     THEN UserNotice(adapter, e.emit, data.receiver_id) ELSE <<>>)
    \o (IF e.listen \in {"call:accept", "call:reject"}
        THEN UserNotice(adapter, e.emit, data.sender_id) ELSE <<>>)
    \o EmitToRoomA(adapter, e.emit, data)

\* CallIdOf reading data.id in every handler
CallIdOf_IdOnly(e, data) == data.id

\* the call id a handler of variant B looks at: data.id for call:start,
\* data.call_id ?? data.id for the others
CallIdOf(e, data) ==
    IF e.listen = "call:start" THEN data.id ELSE Nullish(data.call_id, data.id)

\* callStates after a call handler of variant B: call:start records the call
\* as ringing, the others overwrite the status of a recorded call
Tracked(calls, e, data) ==
    LET callId == CallIdOf(e, data)
        key == ToStr(callId)
    IN  IF ~Truthy(callId) THEN calls
        ELSE IF e.listen = "call:start"
             THEN PutKey(calls, key, [data |-> data, status |-> e.status])
        ELSE IF key \in DOMAIN calls
             THEN PutKey(calls, key, [calls[key] EXCEPT !.status = e.status])
        ELSE calls

\* the emissions of variant B's call handlers: call:start without an id
\* returns before emitting
CallEmitsB(adapter, e, data) ==
    IF e.listen = "call:start" /\ ~Truthy(data.id) THEN <<>>
    ELSE EmitToRoomB(adapter, e.emit, data)

\* socket.on("call:start" | "call:accept" | "call:reject" | "call:cancel" |
\* "call:end")
CallEvent(c, i, data) ==
    LET e == CallEvents[i]
    IN  /\ ~crashed
        /\ status[c] = "live"
        /\ last' = Handled("call", c, e.listen, data)
        /\ response' = 0
        /\ callStates' = IF variant = "B" THEN Tracked(callStates, e, data) ELSE callStates
        /\ out' = CASE variant = "A" -> CallEmitsA(sio, e, data)
                    [] variant = "B" -> CallEmitsB(sio, e, data)
                    [] variant = "C" -> EmitToRoomC(sio, e.emit, data)
                    [] OTHER -> EmitToRoomD(sio, e.emit,
                                    Either(data.sender_id, data.caller_id), data.receiver_id)
        /\ UNCHANGED <<variant, status, sio, currentRoom, activeRooms, userSockets,
                       userMap, crashed, nJoins, nRegs>>

\* userSockets.get(Number(receiverId)) of variant D: Map keys are compared by
\* value and type, so only an entry registered under that number is found;
\* the result is a set with the socket id, empty when there is no entry
MapGet(map, receiverId) ==
    LET n == ToNumber(receiverId)
    IN  IF ~n.nan /\ Num(n.v) \in DOMAIN map THEN {map[Num(n.v)]} ELSE {}

\* socket.on("call:ringing") of variant D: call:new goes to the socket the
\* registry holds for the receiver, to nobody when it holds none
CallRinging(c, data) ==
    /\ ~crashed
    /\ variant = "D"
    /\ status[c] = "live"
    /\ last' = Handled("ringing", c, "call:ringing", data)
    /\ response' = 0
    /\ out' = LET found == MapGet(userMap, Either(data.receiverId, data.receiver_id))
              IN  IF found = {} THEN <<>>
                  ELSE <<Emission("call:new", <<CHOOSE x \in found : TRUE>>,
                                  found \cap Connected)>>
    /\ UNCHANGED <<variant, status, sio, currentRoom, activeRooms, userSockets,
                   userMap, callStates, crashed, nJoins, nRegs>>

MessageEvents ==
    {"message:new", "message:update", "message:delete", "message:reaction",
     "message:reply"}

\* messageEvents.forEach(event => socket.on(event, ...)) of variant D
MessageEvent(c, ev, data) ==
    /\ ~crashed
    /\ variant = "D"
    /\ status[c] = "live"
    /\ last' = Handled("message", c, ev, data)
    /\ response' = 0
    /\ out' = EmitToRoomD(sio, ev, data.sender_id, data.receiver_id)
    /\ UNCHANGED <<variant, status, sio, currentRoom, activeRooms, userSockets,
                   userMap, callStates, crashed, nJoins, nRegs>>

\* the signaling events a generation listens to: webrtc:signal in variant A,
\* webrtc:offer, webrtc:answer and webrtc:candidate in the others
WebrtcEvents(v) ==
    IF v = "A" THEN {"webrtc:signal"}
    ELSE {"webrtc:offer", "webrtc:answer", "webrtc:candidate"}

\* socket.to(room) with the sender in the addressed sockets
SocketTo_WithSender(adapter, room, c) == InRoom(adapter, room)

\* socket.to(room): the sockets of the room other than the sending socket
SocketTo(adapter, room, c) == InRoom(adapter, room) \ {c}

\* the adapter room a roomId value names: rooms are joined under string
\* names, so a roomId that is not a string names a room without sockets
AddressedRoom(roomId) == IF roomId.k = "str" THEN roomId.s ELSE NoRoom

\* socket.on("webrtc:signal" | "webrtc:offer" | "webrtc:answer" |
\* "webrtc:candidate"): variants A, B and C return when roomId is falsy,
\* variant D relays to whatever roomId holds
Webrtc(c, ev, data) ==
    /\ ~crashed
    /\ status[c] = "live"
    /\ ev \in WebrtcEvents(variant)
    /\ last' = Handled("webrtc", c, ev, data)
    /\ response' = 0
    /\ out' = IF variant \in Tracking /\ ~Truthy(data.roomId) THEN <<>>
              ELSE <<Emission(ev, AddressedRoom(data.roomId),
                              SocketTo(sio, AddressedRoom(data.roomId), c))>>
    /\ UNCHANGED <<variant, status, sio, currentRoom, activeRooms, userSockets,
                   userMap, callStates, crashed, nJoins, nRegs>>

\* the events of a client a generation has a listener for
Listened(v) ==
    {"joinRoom"} \cup {CallEvents[i].listen : i \in 1..Len(CallEvents)}
    \cup WebrtcEvents(v)
    \cup (IF v = "D" THEN {"register"} \cup MessageEvents ELSE {"joinUserRoom"})

\* whether the listener of ev throws a TypeError when the client sends the
\* event without a payload: a destructuring parameter ({senderId, receiverId},
\* {userId}, {roomId, signalData}), a destructuring of data, or a read of
\* data.<field> throws on undefined; data?.<field>, !userId and {...data} do
\* not
Throws(v, ev) ==
    CASE ev = "joinRoom" -> TRUE
      [] ev = "joinUserRoom" -> FALSE
      [] ev = "register" -> TRUE
      [] ev \in MessageEvents -> TRUE
      [] ev \in {"call:start", "call:accept", "call:reject"} -> v \in {"A", "D"}
      [] ev \in {"call:cancel", "call:end"} -> v = "D"
      [] OTHER -> v = "D"

\* what a listener that does not throw emits for an event without payload:
\* the call handlers route an empty payload, the others return
BareEmits(v, adapter, ev) ==
    IF \E i \in 1..Len(CallEvents) : CallEvents[i].listen = ev
    THEN LET e == CallEvents[CHOOSE i \in 1..Len(CallEvents) : CallEvents[i].listen = ev]
         IN  CASE v = "A" -> CallEmitsA(adapter, e, EmptyData)
               [] v = "B" -> CallEmitsB(adapter, e, EmptyData)
               [] OTHER -> EmitToRoomC(adapter, e.emit, EmptyData)
    ELSE <<>>

\* a client event sent without a payload: socket.emit(ev).  An exception
\* thrown by the listener is caught nowhere and ends the process
BareEvent(c, ev) ==
    /\ ~crashed
    /\ status[c] = "live"
    /\ ev \in Listened(variant)
    /\ last' = Handled("bare", c, ev, EmptyData)
    /\ response' = 0
    /\ crashed' = Throws(variant, ev)
    /\ out' = IF Throws(variant, ev) THEN <<>> ELSE BareEmits(variant, sio, ev)
    /\ UNCHANGED <<variant, status, sio, currentRoom, activeRooms, userSockets,
                   userMap, callStates, nJoins, nRegs>>

\* BridgeEmits with generation B routing the request through its emitToRoom
BridgeEmits_ThroughRouter(v, adapter, ev, data) ==
    CASE v = "A" -> EmitToRoomA(adapter, ev, data)
      [] v = "B" -> EmitToRoomB(adapter, ev, data)
      [] v = "C" -> EmitToRoomC(adapter, ev, data)
      [] OTHER ->
           LET id1 == Either(data.sender_id, data.caller_id)
               id2 == Either(data.receiver_id, data.receiverId)
           IN  IF Truthy(id1) /\ Truthy(id2)
               THEN EmitToRoomD(adapter, ev, id1, id2)
               ELSE <<Emission(ev, Everyone, Connected)>>

\* Received with the newer deliveries ahead of the older ones
Received_Overtaking(box, o, n) ==
    [c \in ConnSet |->
        LET ToC(e) == c \in e.to
            mine == SelectSeq(o, ToC)
        IN  [i \in 1..Len(mine) |-> [ev |-> mine[i].ev, room |-> mine[i].room, n |-> n]]
            \o box[c]]

\* what the connections have received after a handler's emissions o for the
\* n-th event: each emit call writes its packet to every addressed socket
\* when it is called, so a socket receives the packets in the order of the
\* calls
Received(box, o, n) ==
    [c \in ConnSet |->
        LET ToC(e) == c \in e.to
            mine == SelectSeq(o, ToC)
        IN  box[c] \o
            [i \in 1..Len(mine) |-> [ev |-> mine[i].ev, room |-> mine[i].room, n |-> n]]]

\* the emissions of POST /emit for a request that names an event
BridgeEmits(v, adapter, ev, data) ==
    CASE v = "A" -> EmitToRoomA(adapter, ev, data)
      [] v = "B" -> <<Emission(ev, Everyone, Connected)>>
      [] v = "C" -> EmitToRoomC(adapter, ev, data)
      [] OTHER ->
           LET id1 == Either(data.sender_id, data.caller_id)
               id2 == Either(data.receiver_id, data.receiverId)
           IN  IF Truthy(id1) /\ Truthy(id2)
               THEN EmitToRoomD(adapter, ev, id1, id2)
               ELSE <<Emission(ev, Everyone, Connected)>>

\* the event name of a bridge request that carries none
NoEvent == "undefined"

\* HttpEmit without the check of the event name
HttpEmit_NoCheck(ev, data) ==
    /\ ~crashed
    /\ last' = Handled("emit", "http", ev, data)
    /\ response' = 200
    /\ out' = BridgeEmits(variant, sio, ev, data)
    /\ UNCHANGED <<variant, status, sio, currentRoom, activeRooms, userSockets,
                   userMap, callStates, crashed, nJoins, nRegs>>

\* app.post("/emit")
HttpEmit(ev, data) ==
    /\ ~crashed
    /\ last' = Handled("emit", "http", ev, data)
    /\ IF ev = NoEvent
       THEN /\ response' = 400
            /\ out' = <<>>
       ELSE /\ response' = 200
            /\ out' = BridgeEmits(variant, sio, ev, data)
    /\ UNCHANGED <<variant, status, sio, currentRoom, activeRooms, userSockets,
                   userMap, callStates, crashed, nJoins, nRegs>>

\* ------------------------------------------------------------------------
\* Specifications
\* ------------------------------------------------------------------------
Next ==
    \/ \E c \in ConnSet : Connect(c) /\ UNCHANGED observed
    \/ \E c \in ConnSet, u \in UserIds : JoinUserRoom(c, u) /\ UNCHANGED observed
    \/ \E c \in ConnSet, p \in JoinPairs :
          nJoins < MaxJoins /\ JoinRoom(c, p[1], p[2]) /\ UNCHANGED observed
    \/ \E c \in ConnSet : Disconnect(c) /\ UNCHANGED observed

LifeInit ==
    /\ Init
    /\ variant \in Tracking

Spec == LifeInit /\ [][Next]_vars


\* the room-key specification: joinRoom with identifiers of either type
KeyInit ==
    /\ Init
    /\ variant \in {"A", "D"}

KeyNext ==
    \/ \E c \in ConnSet : Connect(c) /\ UNCHANGED observed
    \/ \E c \in ConnSet, a \in KeyIds, b \in KeyIds :
          nJoins < MaxKeyJoins /\ JoinRoom(c, a, b) /\ UNCHANGED observed

KeySpec == KeyInit /\ [][KeyNext]_vars

\* the routing specification: a short lifecycle, then call, message and bridge
\* events
RouteMaxJoins == 2
RouteMaxRegs == 1

CallId == Str(<<"k">>)

\* payloads of the routed events: a call between 5 and 9 named by id, the
\* same named by call_id, the callee's view of it, the aliased field names,
\* a payload without a receiver and an empty payload
Payloads ==
    {[EmptyData EXCEPT !.sender_id = Num(5), !.receiver_id = Num(9), !.id = CallId],
     [EmptyData EXCEPT !.sender_id = Num(5), !.receiver_id = Num(9), !.call_id = CallId],
     [EmptyData EXCEPT !.sender_id = Num(9), !.receiver_id = Num(5), !.call_id = CallId],
     [EmptyData EXCEPT !.caller_id = Num(5), !.receiverId = Num(9)],
     [EmptyData EXCEPT !.sender_id = Num(5)],
     EmptyData}

RoutePairs == {<<Num(5), Num(9)>>, <<Num(9), Num(9)>>}

RouteUserIds == {Num(5), Num(9)}

BridgeEvents == {NoEvent, "system:alert", "message:new"}

\* payloads of the signaling events: the room of 5 and 9, the room of 9 and
\* 9, and a payload without roomId
SignalPayloads ==
    {[EmptyData EXCEPT !.roomId = Str(RoomKey(Num(5), Num(9)))],
     [EmptyData EXCEPT !.roomId = Str(RoomKey(Num(9), Num(9)))],
     EmptyData}

AllWebrtcEvents == UNION {WebrtcEvents(v) : v \in Variants}

\* the events sent without a payload
BareEvents ==
    {"joinRoom", "joinUserRoom", "register", "call:start", "call:cancel",
     "message:new", "webrtc:offer", "webrtc:signal"}

RouteInit ==
    /\ Init
    /\ variant \in Variants

\* the connections of the routing specification
RouteConns == {Conns[1], Conns[2]}

\* the connection that sends the routed events: connections are
\* interchangeable, so one sender stands for either
Sender == Conns[1]

RouteNext ==
    \/ \E c \in RouteConns : Connect(c) /\ UNCHANGED observed
    \/ \E c \in RouteConns, u \in RouteUserIds :
          nRegs < RouteMaxRegs /\ JoinUserRoom(c, u) /\ UNCHANGED observed
    \/ \E c \in RouteConns, u \in RouteUserIds :
          nRegs < RouteMaxRegs /\ Register(c, u) /\ UNCHANGED observed
    \/ \E c \in RouteConns, p \in RoutePairs :
          nJoins < RouteMaxJoins /\ JoinRoom(c, p[1], p[2]) /\ UNCHANGED observed
    \/ \E i \in 1..Len(CallEvents), d \in Payloads : CallEvent(Sender, i, d) /\ UNCHANGED observed
    \/ \E ev \in MessageEvents, d \in Payloads : MessageEvent(Sender, ev, d) /\ UNCHANGED observed
    \/ \E ev \in BridgeEvents, d \in Payloads : HttpEmit(ev, d) /\ UNCHANGED observed

RouteSpec == RouteInit /\ [][RouteNext]_vars

\* the signaling specification: rooms, then signaling events and events sent
\* without a payload
SignalNext ==
    \/ \E c \in RouteConns : Connect(c) /\ UNCHANGED observed
    \/ \E c \in RouteConns, p \in RoutePairs :
          nJoins < RouteMaxJoins /\ JoinRoom(c, p[1], p[2]) /\ UNCHANGED observed
    \/ \E ev \in AllWebrtcEvents, d \in SignalPayloads :
          Webrtc(Sender, ev, d) /\ UNCHANGED observed
    \/ \E ev \in BareEvents : BareEvent(Sender, ev) /\ UNCHANGED observed

SignalSpec == RouteInit /\ [][SignalNext]_vars

\* the registry specification: registrations, disconnects and an incoming
\* call for a registered user
RegUserIds == {Undef, Num(5), Str(<<"0", "5">>)}

\* a call from user 9 to user 5
RingData == [EmptyData EXCEPT !.sender_id = Num(9), !.receiver_id = Num(5)]

RegNext ==
    \/ \E c \in ConnSet : Connect(c) /\ UNCHANGED observed
    \/ \E c \in ConnSet, u \in RegUserIds : JoinUserRoom(c, u) /\ UNCHANGED observed
    \/ \E c \in ConnSet, u \in RegUserIds : Register(c, u) /\ UNCHANGED observed
    \/ \E c \in ConnSet : Disconnect(c) /\ UNCHANGED observed
    \/ \E c \in ConnSet : CallEvent(c, 1, RingData) /\ UNCHANGED observed
    \/ \E c \in ConnSet : CallRinging(c, RingData) /\ UNCHANGED observed

RegSpec == RouteInit /\ [][RegNext]_vars

\* the ordering specification: one connection sends a bounded number of call,
\* message and signaling events for the conversation of 5 and 9, and what
\* each connection receives is recorded
MaxSends == 2

OrderPayloads ==
    {[EmptyData EXCEPT !.sender_id = Num(5), !.receiver_id = Num(9), !.id = CallId,
                       !.roomId = Str(RoomKey(Num(5), Num(9)))]}

OrderCalls == {1, 2}

OrderMessages == {"message:new", "message:update"}

OrderSignals == {"webrtc:offer", "webrtc:signal"}

\* the handler's deliveries are appended to the record
Recorded ==
    /\ nSent < MaxSends
    /\ nSent' = nSent + 1
    /\ inbox' = Received(inbox, out', nSent + 1)
    /\ UNCHANGED <<pc, remaining, succeeded>>

OrderNext ==
    \/ \E c \in RouteConns : Connect(c) /\ UNCHANGED observed
    \/ \E c \in RouteConns, u \in RouteUserIds :
          nRegs < RouteMaxRegs /\ JoinUserRoom(c, u) /\ UNCHANGED observed
    \/ \E c \in RouteConns, p \in RoutePairs :
          nJoins < RouteMaxJoins /\ JoinRoom(c, p[1], p[2]) /\ UNCHANGED observed
    \/ \E i \in OrderCalls, d \in OrderPayloads : CallEvent(Sender, i, d) /\ Recorded
    \/ \E ev \in OrderMessages, d \in OrderPayloads : MessageEvent(Sender, ev, d) /\ Recorded
    \/ \E ev \in OrderSignals, d \in OrderPayloads : Webrtc(Sender, ev, d) /\ Recorded

OrderSpec == RouteInit /\ [][OrderNext]_vars

\* the conversation specification: joinRoom and joinUserRoom with identifiers
\* a client is free to send, among them strings holding the separator and
\* the prefix of the user channels
StrUser == Str(<<"u", "s", "e", "r">>)

SharePairs == {<<Num(5), Num(9)>>, <<Num(9), Num(5)>>,
               <<Str(<<"a", "-", "b">>), Str(<<"b">>)>>,
               <<Str(<<"a">>), Str(<<"b", "-", "b">>)>>,
               <<Num(5), StrUser>>,
               <<Str(<<"u", "s", "e", "r", ":", "5">>), Str(<<"u", "u">>)>>}

ShareUserIds == {Num(5), Str(<<"5", "-", "u", "u">>)}

ShareConns == {Conns[1], Conns[2]}

ShareNext ==
    \/ \E c \in ShareConns : Connect(c) /\ UNCHANGED observed
    \/ \E c \in ShareConns, u \in ShareUserIds : JoinUserRoom(c, u) /\ UNCHANGED observed
    \/ \E c \in ShareConns, p \in SharePairs :
          nJoins < MaxKeyJoins /\ JoinRoom(c, p[1], p[2]) /\ UNCHANGED observed

ShareSpec == LifeInit /\ [][ShareNext]_vars

\* the call-tracker specification: the generation that records call states,
\* a call between 5 and 9 started under an id, then status events that name
\* the call with its participants or by its id alone
CallPayloads ==
    {[EmptyData EXCEPT !.sender_id = Num(5), !.receiver_id = Num(9), !.id = CallId],
     [EmptyData EXCEPT !.sender_id = Num(9), !.receiver_id = Num(5), !.call_id = CallId],
     [EmptyData EXCEPT !.call_id = CallId]}

CallInit ==
    /\ Init
    /\ variant = "B"

CallNext ==
    \/ \E c \in RouteConns : Connect(c) /\ UNCHANGED observed
    \/ \E c \in RouteConns, p \in RoutePairs :
          nJoins < RouteMaxJoins /\ JoinRoom(c, p[1], p[2]) /\ UNCHANGED observed
    \/ \E c \in RouteConns, i \in 1..Len(CallEvents), d \in CallPayloads :
          CallEvent(c, i, d) /\ UNCHANGED observed

CallSpec == CallInit /\ [][CallNext]_vars

\* ------------------------------------------------------------------------
\* The handlers statement by statement
\* ------------------------------------------------------------------------

\* a listener with one of its own statements still to run
InFlight(p) == {c \in ConnSet : p[c] # "idle"}

\* the event loop hands an event to a listener whatever listeners are running
LoopFree_Reentrant(p) == TRUE

\* the listeners are synchronous functions: the event loop hands the next
\* event to a listener only when no listener is running
LoopFree(p) == InFlight(p) = {}

\* joinRoom up to activeRooms[roomId].add(socket.id)
JoinAdd(c, senderId, receiverId) ==
    /\ ~crashed
    /\ LoopFree(pc)
    /\ status[c] = "live"
    /\ variant \in Tracking
    /\ Truthy(senderId) /\ Truthy(receiverId)
    /\ last' = Handled("joinRoom", c, "joinRoom", JoinData(senderId, receiverId))
    /\ response' = 0
    /\ nJoins' = nJoins + 1
    /\ LET roomId == RoomKey(senderId, receiverId)
       IN  /\ sio' = [sio EXCEPT ![c] = @ \cup {roomId}]
           /\ currentRoom' = [currentRoom EXCEPT ![c] = roomId]
           /\ activeRooms' = Joined(activeRooms, roomId, c)
    /\ out' = <<>>
    /\ pc' = [pc EXCEPT ![c] = "added"]
    /\ UNCHANGED <<variant, status, userSockets, userMap, callStates, crashed, nRegs,
                   succeeded,
                   inbox, nSent, remaining>>

\* socket.to(roomId).emit("room:joined", ...)
JoinNotify(c) ==
    /\ pc[c] = "added"
    /\ out' = out \o <<Emission("room:joined", currentRoom[c],
                                InRoom(sio, currentRoom[c]) \ {c})>>
    /\ pc' = [pc EXCEPT ![c] = "notified"]
    /\ UNCHANGED <<variant, status, sio, currentRoom, activeRooms, userSockets, userMap,
                   callStates, last, crashed, response, nJoins, nRegs, succeeded,
                   inbox, nSent,
                   remaining>>

\* reading activeRooms[roomId].size
JoinCount(c) ==
    /\ pc[c] = "notified"
    /\ remaining' = [remaining EXCEPT
                        ![c] = Cardinality(activeRooms[currentRoom[c]])]
    /\ pc' = [pc EXCEPT ![c] = "counted"]
    /\ UNCHANGED <<variant, status, sio, currentRoom, activeRooms, userSockets, userMap,
                   callStates, out, last, crashed, response, nJoins, nRegs, succeeded,
                   inbox, nSent>>

\* if (size >= 2) io.to(roomId).emit("room:ready", ...)
JoinReady(c) ==
    /\ pc[c] = "counted"
    /\ out' = out \o (IF remaining[c] >= ReadyThreshold
                      THEN <<Emission("room:ready", currentRoom[c],
                                      InRoom(sio, currentRoom[c]))>>
                      ELSE <<>>)
    /\ pc' = [pc EXCEPT ![c] = "idle"]
    /\ UNCHANGED <<variant, status, sio, currentRoom, activeRooms, userSockets, userMap,
                   callStates, last, crashed, response, nJoins, nRegs, succeeded,
                   inbox, nSent,
                   remaining>>

\* activeRooms[roomId].delete(socket.id)
MemberDeleted(rooms, roomId, c) == PutKey(rooms, roomId, rooms[roomId] \ {c})

\* disconnect up to activeRooms[roomId].delete(socket.id); without a recorded
\* room in the directory the handler goes on to the registry
LeaveDelete(c) ==
    /\ ~crashed
    /\ LoopFree(pc)
    /\ status[c] = "live"
    /\ variant \in Tracking
    /\ status' = [status EXCEPT ![c] = "closed"]
    /\ sio' = [sio EXCEPT ![c] = {}]
    /\ last' = Handled("disconnect", c, "disconnect", EmptyData)
    /\ response' = 0
    /\ out' = <<>>
    /\ IF currentRoom[c] # NoRoom /\ currentRoom[c] \in DOMAIN activeRooms
       THEN /\ activeRooms' = MemberDeleted(activeRooms, currentRoom[c], c)
            /\ pc' = [pc EXCEPT ![c] = "deleted"]
       ELSE /\ pc' = [pc EXCEPT ![c] = "cleanup"]
            /\ UNCHANGED activeRooms
    /\ UNCHANGED <<variant, currentRoom, userSockets, userMap, callStates, crashed,
                   nJoins, nRegs, succeeded,
                   inbox, nSent, remaining>>

\* const remaining = activeRooms[roomId].size
LeaveCount(c) ==
    /\ pc[c] = "deleted"
    /\ remaining' = [remaining EXCEPT
                        ![c] = Cardinality(activeRooms[currentRoom[c]])]
    /\ pc' = [pc EXCEPT ![c] = "read"]
    /\ UNCHANGED <<variant, status, sio, currentRoom, activeRooms, userSockets, userMap,
                   callStates, out, last, crashed, response, nJoins, nRegs, succeeded,
                   inbox, nSent>>

\* if (remaining === 0) delete activeRooms[roomId];
\* else socket.to(roomId).emit("room:left", ...)
LeaveAct(c) ==
    /\ pc[c] = "read"
    /\ IF remaining[c] = 0
       THEN /\ activeRooms' = DelKey(activeRooms, currentRoom[c])
            /\ UNCHANGED out
       ELSE /\ out' = out \o <<Emission("room:left", currentRoom[c],
                                        InRoom(sio, currentRoom[c]) \ {c})>>
            /\ UNCHANGED activeRooms
    /\ pc' = [pc EXCEPT ![c] = "cleanup"]
    /\ UNCHANGED <<variant, status, sio, currentRoom, userSockets, userMap, callStates,
                   last, crashed, response, nJoins, nRegs, succeeded,
                   inbox, nSent, remaining>>

\* Object.keys(userSockets).forEach(...): the registry cleanup that ends the
\* disconnect handler
LeaveCleanup(c) ==
    /\ pc[c] = "cleanup"
    /\ LET un == Unregistered(variant, userSockets, ObjectKeys(userSockets), c)
       IN  /\ userSockets' = un.reg
           /\ crashed' = un.thrown
    /\ pc' = [pc EXCEPT ![c] = "idle"]
    /\ UNCHANGED <<variant, status, sio, currentRoom, activeRooms, userMap, callStates,
                   out, last, response, nJoins, nRegs, succeeded,
                   inbox, nSent, remaining>>

\* joinUserRoom, a listener of a single mutation
Enrol(c, userId) ==
    /\ LoopFree(pc)
    /\ JoinUserRoom(c, userId)
    /\ UNCHANGED observed

\* the step-level specification: two connections joining and leaving the
\* room of 5 and 9 or the room of 9 and 9, registered as user 9 or not
StepMaxJoins == 3

StepNext ==
    \/ \E c \in RouteConns : LoopFree(pc) /\ Connect(c) /\ UNCHANGED observed
    \/ \E c \in RouteConns : Enrol(c, Num(9))
    \/ \E c \in RouteConns, p \in RoutePairs :
          nJoins < StepMaxJoins /\ JoinAdd(c, p[1], p[2])
    \/ \E c \in RouteConns : JoinNotify(c)
    \/ \E c \in RouteConns : JoinCount(c)
    \/ \E c \in RouteConns : JoinReady(c)
    \/ \E c \in RouteConns : LeaveDelete(c)
    \/ \E c \in RouteConns : LeaveCount(c)
    \/ \E c \in RouteConns : LeaveAct(c)
    \/ \E c \in RouteConns : LeaveCleanup(c)

StepSpec == LifeInit /\ [][StepNext]_vars

\* the handover specification: the generation whose registry maps a user id
\* to one socket id; a user, known by a number or by a string, registers on
\* one connection and then on another, connections close, and calls come in
\* for the user
HandoverIds == {Num(5), Str(<<"0", "5">>)}

\* a call from user 9 to user u
RingTo(u) == [EmptyData EXCEPT !.sender_id = Num(9), !.receiver_id = u]

HandoverInit ==
    /\ Init
    /\ variant = "D"

\* a registration that replaces the user's entry is put on record
Noted(c, u) ==
    /\ succeeded' = IF u \in DOMAIN userMap /\ userMap[u] # c
                    THEN succeeded \cup {<<u, userMap[u], c>>}
                    ELSE succeeded
    /\ UNCHANGED <<inbox, nSent, pc, remaining>>

HandoverNext ==
    \/ \E c \in ConnSet : Connect(c) /\ UNCHANGED observed
    \/ \E c \in ConnSet, u \in HandoverIds : Register(c, u) /\ Noted(c, u)
    \/ \E c \in ConnSet : Disconnect(c) /\ UNCHANGED observed
    \/ \E c \in ConnSet, u \in HandoverIds : CallRinging(c, RingTo(u)) /\ UNCHANGED observed

HandoverSpec == HandoverInit /\ [][HandoverNext]_vars

\* ------------------------------------------------------------------------
\* Claims
\* ------------------------------------------------------------------------

JoinedTruthy(h) ==
    h.op = "joinRoom" /\ Truthy(h.data.senderId) /\ Truthy(h.data.receiverId)

\* C1: the room key is order-independent: when the first two joinRoom events
\* carry (a, b) and (b, a), the connections that sent them are in one and the
\* same room.
C1_KeyOrderIndependent ==
    [][(/\ JoinedTruthy(last) /\ JoinedTruthy(last')
        /\ nJoins' = 2
        /\ last'.data.senderId = last.data.receiverId
        /\ last'.data.receiverId = last.data.senderId)
       => Cardinality(sio'[last.conn] \cup sio'[last'.conn]) = 1]_vars

\* live members the directory lists for a room; 0 members when it is absent
Members(rooms, r) == IF r \in DOMAIN rooms THEN rooms[r] ELSE {}

\* how many times the handler that ran last delivered ev to connection c
Delivered(o, ev, c) == Cardinality({i \in 1..Len(o) : o[i].ev = ev /\ c \in o[i].to})

\* C2: room:ready fires exactly once per crossing of the readiness threshold
\* from below: a joinRoom that takes the member count from below 2 to 2 or
\* more delivers one room:ready to each live member, and a joinRoom into a
\* room that already had 2 or more members delivers none.
C2_ReadyOncePerCrossing ==
    [][JoinedTruthy(last') =>
        LET r == currentRoom'[last'.conn]
            crossing == /\ Cardinality(Members(activeRooms, r)) < ReadyThreshold
                        /\ Cardinality(Members(activeRooms', r)) >= ReadyThreshold
        IN  \A c \in ConnSet :
               Delivered(out', "room:ready", c) =
                  IF crossing /\ c \in activeRooms'[r] /\ status[c] = "live"
                  THEN 1 ELSE 0]_vars

\* C3: every room key present in the Room Directory maps to a non-empty
\* member set (a disconnect that removes the last member deletes the key).
C3_NoEmptyRoom ==
    \A r \in DOMAIN activeRooms : activeRooms[r] # {}

\* a disconnect has just removed the last member of the connection's room
C3_Witness ==
    /\ last.op = "disconnect"
    /\ currentRoom[last.conn] # NoRoom
    /\ currentRoom[last.conn] \notin DOMAIN activeRooms

\* C4: a live connection is a member of at most one room, the one it joined
\* last: neither the directory nor the adapter holds it in any other room.
C4_AtMostOneRoom ==
    \A c \in ConnSet : \A r \in DOMAIN activeRooms :
        (status[c] = "live" /\ (c \in activeRooms[r] \/ r \in sio[c]))
            => r = currentRoom[c]

\* C5: disconnecting a connection that joined no room and no user channel
\* raises no error, leaves the directory, the registry and the call tracker
\* as they were and emits nothing.
C5_IdleDisconnectNoOp ==
    [][(last'.op = "disconnect" /\ status[last'.conn] = "live" /\ sio[last'.conn] = {})
       => /\ ~crashed'
          /\ activeRooms' = activeRooms
          /\ userSockets' = userSockets
          /\ callStates' = callStates
          /\ out' = <<>>]_vars

\* the smaller and the larger of two identifiers under the order of `<`; for
\* a pair `<` does not order, one fixed choice for both argument orders
Least(a, b) == IF JsLt(a, b) THEN a
               ELSE IF JsLt(b, a) THEN b
               ELSE CHOOSE x \in {a, b} : TRUE

Greatest(a, b) == IF a = b THEN a ELSE CHOOSE x \in {a, b} : x # Least(a, b)

\* C6: the first joinRoom puts the connection in the room named
\* min(a,b) "-" max(a,b), for numbers and strings alike.
C6_KeyIsMinMax ==
    (JoinedTruthy(last) /\ nJoins = 1)
        => sio[last.conn] =
              {ToStr(Least(last.data.senderId, last.data.receiverId)) \o <<"-">>
               \o ToStr(Greatest(last.data.senderId, last.data.receiverId))}


\* connection c is live and registered for user u
RegisteredAs(c, u) ==
    /\ status[c] = "live"
    /\ IF variant = "D" THEN u \in DOMAIN userMap /\ userMap[u] = c
       ELSE ToStr(u) \in DOMAIN userSockets /\ c \in userSockets[ToStr(u)]

\* the live connections the Room Directory lists for the room of (a, b)
RoomMembers(a, b) ==
    {c \in Members(activeRooms, RoomKey(a, b)) : status[c] = "live"}

\* the two participants a payload names
Pair(d) == {d.sender_id, d.receiver_id}

C8_MessageReachesRegistered ==
    (/\ last.op \in {"message", "emit"} /\ last.ev = "message:new"
     /\ Truthy(last.data.sender_id) /\ Truthy(last.data.receiver_id)
     /\ InRoom(sio, RoomKey(last.data.sender_id, last.data.receiver_id)) = {})
    => \A c \in ConnSet :
          RegisteredAs(c, last.data.receiver_id)
             => Delivered(out, "message:new", c) >= 1

\* C9: in the generations with per-user channels, call:start with receiver_id
\* r is delivered, as call:ringing, to every connection registered for user
\* r, member of the room or not.
C9_CallStartReachesRegistered ==
    (/\ variant \in Tracking
     /\ last.op = "call" /\ last.ev = "call:start"
     /\ Truthy(last.data.receiver_id))
    => \A c \in ConnSet :
          RegisteredAs(c, last.data.receiver_id)
             => Delivered(out, "call:ringing", c) >= 1

\* C10: one inbound call, message or bridge event is delivered to a
\* connection at most once.
C10_AtMostOnce ==
    (last.op \in {"call", "message", "emit"})
    => \A c \in ConnSet : Cardinality({i \in 1..Len(out) : c \in out[i].to}) <= 1

\* C11: a signaling event (webrtc:offer, webrtc:answer, webrtc:candidate,
\* webrtc:signal) is never delivered back to the connection that sent it and
\* reaches every other member of the room it addresses.
C11_SignalNoEcho ==
    (last.op = "webrtc" /\ Truthy(last.data.roomId))
    => LET r == AddressedRoom(last.data.roomId)
       IN  /\ \A i \in 1..Len(out) : last.conn \notin out[i].to
           /\ \A c \in (InRoom(sio, r) \cup {m \in Members(activeRooms, r) : status[m] = "live"})
                      \ {last.conn} :
                  Delivered(out, last.ev, c) >= 1

\* the sender and another connection are in the addressed room; the other
\* connection got the signal and the sender did not
C11_Witness ==
    /\ last.op = "webrtc"
    /\ last.conn \in InRoom(sio, AddressedRoom(last.data.roomId))
    /\ \E c \in ConnSet \ {last.conn} :
          /\ c \in InRoom(sio, AddressedRoom(last.data.roomId))
          /\ Delivered(out, last.ev, c) = 1
    /\ Delivered(out, last.ev, last.conn) = 0

\* the outbound name of a call handler's event
EmitName(listen) ==
    (CHOOSE i \in 1..Len(CallEvents) : CallEvents[i].listen = listen)

\* C12: a call status event (call:ringing, call:accepted, call:rejected,
\* call:cancelled, call:ended) is delivered to every member of the room of
\* the sender and receiver the payload names, the originating connection
\* included when it is a member.
C12_StatusToAllMembers ==
    (last.op = "call" /\ Truthy(last.data.sender_id) /\ Truthy(last.data.receiver_id))
    => \A c \in InRoom(sio, RoomKey(last.data.sender_id, last.data.receiver_id)) :
          Delivered(out, CallEvents[EmitName(last.ev)].emit, c) >= 1

\* the name under which a handled event goes out
OutboundName(h) == IF h.op = "call" THEN CallEvents[EmitName(h.ev)].emit ELSE h.ev

\* the payload resolves no sender or no receiver
Unresolved(d) ==
    \/ ~Truthy(Nullish(d.sender_id, d.caller_id))
    \/ ~Truthy(Nullish(d.receiver_id, d.receiverId))

\* C13: an inbound call, message or bridge event whose payload resolves no
\* sender or no receiver is broadcast to every connected client.
C13_UnresolvedIsBroadcast ==
    (/\ last.op \in {"call", "message", "emit"}
     /\ last.ev # NoEvent
     /\ Unresolved(last.data))
    => \A c \in Connected : Delivered(out, OutboundName(last), c) >= 1

\* the payload carries none of the sender and receiver fields
NoParticipants(d) ==
    /\ d.sender_id = Undef /\ d.caller_id = Undef /\ d.updated_by = Undef
    /\ d.receiver_id = Undef /\ d.receiverId = Undef /\ d.other_user_id = Undef

C16_HandlerErrorsContained ==
    [][last'.op = "bare"
       => /\ ~crashed'
          /\ UNCHANGED <<activeRooms, userSockets, userMap, callStates>>]_vars

RegisterOps == {"joinUserRoom", "register"}

\* C17: register is idempotent and ignores a missing user id: a registration
\* that repeats the previous one (same connection, same user id) leaves the
\* Identity Registry as it was, and a registration whose user id is missing
\* or falsy changes nothing in the registry.
C17_RegisterIdempotent ==
    [][last'.op \in RegisterOps
       => /\ (last.op = last'.op /\ last.conn = last'.conn /\ last.data = last'.data)
             => UNCHANGED <<userSockets, userMap>>
          /\ ~Truthy(last'.data.userId)
             => UNCHANGED <<userSockets, userMap, sio>>]_vars

\* the live connections registered for user u
RegisteredFor(u) == {c \in ConnSet : RegisteredAs(c, u)}

\* C18: after two different live connections have registered the same user
\* id one after the other, the registry holds both for that user, and a
\* call:start addressed to a user with two registered connections is
\* delivered to both.
C18_MultiDevice ==
    [][/\ (/\ last.op \in RegisterOps /\ last'.op = last.op
            /\ last.conn # last'.conn
            /\ Truthy(last.data.userId) /\ last'.data.userId = last.data.userId)
          => {last.conn, last'.conn} \subseteq RegisteredFor(last.data.userId)'
       /\ (/\ last'.op = "call" /\ last'.ev = "call:start"
            /\ Cardinality(RegisteredFor(last'.data.receiver_id)) >= 2)
          => \A c \in RegisteredFor(last'.data.receiver_id) :
                Delivered(out', "call:ringing", c) >= 1]_vars

\* C19: while the server runs, every user id in the Identity Registry maps
\* to a non-empty set that holds live connections only: a disconnect takes
\* the connection out of every set that holds it and removes a user entry
\* together with its last connection.
C19_RegistryLive ==
    ~crashed
    => /\ \A k \in DOMAIN userSockets :
             userSockets[k] # {} /\ \A c \in userSockets[k] : status[c] = "live"
       /\ \A u \in DOMAIN userMap : status[userMap[u]] = "live"

C22_BridgeRoutedToRoom ==
    (last.op = "emit" /\ last.ev # NoEvent /\ ~Unresolved(last.data))
    => LET sid == Nullish(last.data.sender_id, last.data.caller_id)
           rid == Nullish(last.data.receiver_id, last.data.receiverId)
       IN  \A i \in 1..Len(out) :
              out[i].to \subseteq
                 InRoom(sio, RoomKey(sid, rid)) \cup InRoom(sio, UserChannel(variant, rid))

\* C23: a message-family event sent by a member of the room of its sender
\* and receiver is delivered to every other member of that room and not back
\* to the connection that sent it.
C23_MessageNoEcho ==
    (/\ last.op = "message"
     /\ Truthy(last.data.sender_id) /\ Truthy(last.data.receiver_id)
     /\ last.conn \in InRoom(sio, RoomKey(last.data.sender_id, last.data.receiver_id)))
    => /\ \A c \in InRoom(sio, RoomKey(last.data.sender_id, last.data.receiver_id))
                  \ {last.conn} :
              Delivered(out, last.ev, c) >= 1
       /\ \A i \in 1..Len(out) : last.conn \notin out[i].to

\* C30: a signaling event is relayed to the members of the room its roomId
\* names only when the sending connection is itself in that room: a
\* connection outside the room causes no delivery.
C30_SignalFromMemberOnly ==
    (/\ last.op = "webrtc"
     /\ last.conn \notin InRoom(sio, AddressedRoom(last.data.roomId)))
    => \A i \in 1..Len(out) : out[i].to = {}

\* how many times the handler that ran last delivered ev, naming room r, to c
DeliveredFor(o, ev, r, c) ==
    Cardinality({i \in 1..Len(o) : o[i].ev = ev /\ o[i].room = r /\ c \in o[i].to})

\* C25: when a connection disconnects, in every room the directory lists it
\* in, each remaining live member receives exactly one room:left naming that
\* room, the departed connection receives none, and a room it was the only
\* member of has no room:left delivered for it.
C25_LeftToRemaining ==
    [][(last'.op = "disconnect" /\ status[last'.conn] = "live")
       => \A r \in DOMAIN activeRooms :
             last'.conn \in activeRooms[r]
             => /\ \A m \in activeRooms[r] \ {last'.conn} :
                      status[m] = "live" => DeliveredFor(out', "room:left", r, m) = 1
                /\ DeliveredFor(out', "room:left", r, last'.conn) = 0
                /\ activeRooms[r] = {last'.conn}
                      => \A c \in ConnSet : DeliveredFor(out', "room:left", r, c) = 0]_vars

\* C26: a joinRoom delivers exactly one room:joined to each live connection
\* the directory already listed in the room, and none to anybody else: not
\* to the joining connection, and to nobody when the room was empty or absent.
C26_JoinedToExisting ==
    [][JoinedTruthy(last')
       => LET r == currentRoom'[last'.conn]
              before == {m \in Members(activeRooms, r) : status[m] = "live"} \ {last'.conn}
          IN  \A c \in ConnSet :
                 Delivered(out', "room:joined", c) = IF c \in before THEN 1 ELSE 0]_vars

\* a joinRoom has just been announced to a connection already in the room
C26_Witness ==
    /\ JoinedTruthy(last)
    /\ \E c \in ConnSet \ {last.conn} : Delivered(out, "room:joined", c) = 1
    /\ Delivered(out, "room:joined", last.conn) = 0

\* C27: every connection id the Room Directory or the Identity Registry
\* stores is the id of a live connection (so both are empty once every
\* connection has disconnected).
C27_StoresHoldLiveOnly ==
    ~crashed
    => /\ \A r \in DOMAIN activeRooms : \A c \in activeRooms[r] : status[c] = "live"
       /\ \A u \in DOMAIN userSockets : \A c \in userSockets[u] : status[c] = "live"

\* the two identifiers of a joinRoom, as an unordered pair
JoinedPair(h) == {h.data.senderId, h.data.receiverId}

\* C28: distinct conversations never share a room: when the first two
\* joinRoom events come from two connections and name identifier pairs that
\* differ as unordered pairs, the two connections are in different rooms.
C28_ConversationsApart ==
    [][(/\ JoinedTruthy(last) /\ JoinedTruthy(last')
        /\ nJoins' = 2
        /\ last.conn # last'.conn
        /\ JoinedPair(last) # JoinedPair(last'))
       => currentRoom'[last.conn] # currentRoom'[last'.conn]]_vars

\* C29: joinRoom makes no connection a member of a user's channel: whoever
\* is in the channel of user u has registered as u.
C29_ChannelOnlyByRegistering ==
    \A c \in ConnSet : \A u \in ShareUserIds :
        UserChannel(variant, u) \in sio[c]
        => ToStr(u) \in DOMAIN userSockets /\ c \in userSockets[ToStr(u)]

\* C24: the tracker rejects no transition: call:accept, call:reject,
\* call:cancel and call:end for a recorded call id set the recorded status to
\* accepted, rejected, cancelled or ended whatever it was before, and the
\* outbound status event is delivered to every member of the room of the
\* recorded call's participants.
C24_NoTransitionRejected ==
    [][LET d == last'.data
           callId == Nullish(d.call_id, d.id)
           key == ToStr(callId)
       IN  (/\ variant = "B" /\ last'.op = "call" /\ last'.ev # "call:start"
            /\ Truthy(callId) /\ key \in DOMAIN callStates)
           => /\ callStates'[key].status = CallEvents[EmitName(last'.ev)].status
              /\ \A c \in RoomMembers(callStates[key].data.sender_id,
                                     callStates[key].data.receiver_id) :
                    Delivered(out', CallEvents[EmitName(last'.ev)].emit, c) >= 1]_vars

C31_CurrentRoomHoldsMember ==
    [][/\ \A c \in ConnSet :
             (status'[c] = "live" /\ currentRoom'[c] # NoRoom)
             => /\ currentRoom'[c] \in DOMAIN activeRooms'
                /\ c \in activeRooms'[currentRoom'[c]]
       /\ \A c \in ConnSet \ {last'.conn} :
             (/\ last'.op \in {"joinRoom", "disconnect"}
              /\ status[c] = "live" /\ currentRoom[c] # NoRoom
              /\ c \in Members(activeRooms, currentRoom[c]))
             => c \in Members(activeRooms', currentRoom[c])]_vars

\* a connection has just disconnected from a room in which another live
\* connection, whose current room it is, remains a member
C31_Witness ==
    /\ last.op = "disconnect"
    /\ \E c \in ConnSet \ {last.conn} :
          /\ status[c] = "live"
          /\ currentRoom[c] # NoRoom
          /\ currentRoom[c] = currentRoom[last.conn]
          /\ c \in Members(activeRooms, currentRoom[c])

\* the registry maps user u to connection c
Holds(u, c) == u \in DOMAIN userMap /\ userMap[u] = c

\* C32: in the generation whose registry maps a user id to one socket id,
\* once user u has registered on c1 and later on c2, the disconnect of c1
\* leaves u mapped to c2, and a call:ringing for u handled afterwards, while
\* u maps to c2, is forwarded to c2.
C32_HandoverSurvives ==
    [][\A h \in succeeded :
          LET u == h[1]
              c1 == h[2]
              c2 == h[3]
          IN  /\ (/\ last'.op = "disconnect" /\ last'.conn = c1 /\ status[c1] = "live"
                  /\ Holds(u, c2))
                 => Holds(u, c2)'
              /\ (/\ last'.op = "ringing" /\ last'.data.receiver_id = u
                  /\ status[c1] = "closed" /\ Holds(u, c2) /\ status[c2] = "live")
                 => Delivered(out', "call:new", c2) >= 1]_vars

====
